---- MODULE Spec2Model ----
(***************************************************************************)
(* Persistence core of the "Desire Button" single-page application        *)
(* (src/app.js): the IndexedDB wrapper DB, the Storage repository built   *)
(* on it, the legacy localStorage migration and the initApp sequence.     *)
(*                                                                         *)
(* IndexedDB is modelled by what the code relies on: a request is queued  *)
(* on its object store when the code issues it and is served later by the *)
(* engine; transactions on one store are served in the order they were    *)
(* created, except that read-only transactions may overtake one another;  *)
(* the two object stores are served independently.  When a request is     *)
(* served the awaiting async function resumes and runs to its next await. *)
(*                                                                         *)
(* Spec is the whole program.  SpecStats, SpecButtons, SpecCounts,         *)
(* SpecMigrate, SpecAll, SpecFaults, SpecStatFaults and SpecHandlers are   *)
(* the same machine with the UI restricted to one family of calls each     *)
(* (SpecAll: every call, one session; SpecFaults: requests on store        *)
(* 'buttons' may fail; SpecStatFaults: reads of store 'stats' may fail;    *)
(* SpecHandlers: the click and submit handlers on an empty store); the     *)
(* properties are checked under these.                                     *)
(***************************************************************************)
EXTENDS Integers, Sequences, FiniteSets, TLC

VARIABLES
    db,        \* DB.db: "null" before DB.init resolves, then "open"; "failed" when open was refused
    buttons,   \* object store 'buttons' (keyPath 'id'): function from stored id to record
    stats,     \* object store 'stats' (keyPath 'key'): function from stored key to value
    legacy,    \* localStorage item "yoku-buttons"
    clock,     \* Date.now()
    tasks,     \* async calls: slot 0 is initApp, slots 1..MaxTasks are calls made by the UI
    btnQ,      \* slots whose request on store 'buttons' is waiting, in order of issue
    statsQ,    \* transactions on store 'stats' waiting or running, in order of creation
    last,      \* history: the call that returned most recently, with its result
    expected,  \* history: per counter, stored value when last zeroed/loaded plus calls made since
    batch      \* history: the calls made since the stores were last at rest, and the stores then

vars == <<db, buttons, stats, legacy, clock, tasks, btnQ, statsQ, last, expected, batch>>

----------------------------------------------------------------------------
(* Bounds *)

MaxTasks == 2      \* UI calls that can be in flight together
MaxClock == 3      \* last value Date.now() takes
FirstNow == 2      \* Date.now() when the first session starts (legacy records are older)
MaxStat == 2       \* incrementStat is not called on a counter expected to hold this value
MaxCount == 1      \* incrementButtonStat is not called on a count that holds this value
MaxPending == 2    \* transactions that may wait on store 'stats'
MaxCalls == 2      \* calls the UI makes in one session

----------------------------------------------------------------------------
(* Data *)

StatKeys == {"patience", "desire"}

Ids == {ToString(n) : n \in 1..MaxClock}

Slots == 1..MaxTasks

\* form input of the add/edit form (lines 643-655)
FormInputs ==
    { [name |-> "a", message |-> "m", imageUrl |-> "i", colorIndex |-> 0] }

\* partial inputs given to updateButton
PartialInputs ==
    { [name |-> "b"],
      [id |-> "3"],
      [name |-> "b", message |-> "n", imageUrl |-> "j", colorIndex |-> 1] }

\* what the form hands to updateButton when a button is edited (lines 643-648)
FormEdits ==
    { input \in PartialInputs :
        {"name", "message", "imageUrl", "colorIndex"} \subseteq DOMAIN input }

\* records written by the version that kept buttons in localStorage
Legacy1 == [id |-> "1", name |-> "coffee", message |-> "skip it", createdAt |-> 1]
Legacy2 == [id |-> "0", name |-> "cake", message |-> "wait", createdAt |-> 0]

\* what localStorage.getItem(OLD_KEY) may hold when a session starts
LegacyChoices ==
    { [kind |-> "absent", items |-> <<>>],
      [kind |-> "invalid", items |-> <<>>],
      [kind |-> "array", items |-> <<>>],
      [kind |-> "array", items |-> <<Legacy1>>],
      [kind |-> "array", items |-> <<Legacy1, Legacy2>>] }

NoLegacy == [kind |-> "absent", items |-> <<>>]

----------------------------------------------------------------------------
(* Values *)

EmptyStore == [k \in {} |-> 0]

\* the result a finished call gave its caller
Res(tag, rec, num) == [tag |-> tag, rec |-> rec, num |-> num]
NoRes == Res("none", {}, 0)

ZeroExpected == [patience |-> 0, desire |-> 0, reset |-> FALSE]

Task(op, pc, id, key, arg, loc, list, exp) ==
    [op |-> op, pc |-> pc, id |-> id, key |-> key, arg |-> arg, loc |-> loc,
     list |-> list, exp |-> exp]

IdleTask == Task("idle", "idle", "", "", {}, {}, <<>>, ZeroExpected)

\* the record of a call that returned: its arguments, the await it returned from
\* ("nodb" when it returned at once on a handle that is not open) and its result
Returned(task, res) ==
    [op |-> task.op, id |-> task.id, key |-> task.key, arg |-> task.arg,
     exp |-> task.exp, from |-> task.pc, res |-> res]

NoLast == Returned(IdleTask, NoRes)

Running(t) == tasks[t].pc # "idle"

\* an object spread { ...current, ...input }
Merge(current, input) ==
    [f \in DOMAIN current \cup DOMAIN input |->
        IF f \in DOMAIN input THEN input[f] ELSE current[f]]

\* x[field] || 0 on counts
OrZero(rec, field) == IF field \in DOMAIN rec THEN rec[field] ELSE 0

Min(a, b) == IF a < b THEN a ELSE b

RemoveAt(q, i) == [j \in 1..(Len(q) - 1) |-> IF j < i THEN q[j] ELSE q[j + 1]]

Without(q, t) == SelectSeq(q, LAMBDA x : x # t)

----------------------------------------------------------------------------
(* DB: the IndexedDB wrapper, lines 11-81 *)

\* request.result of store.get(id): the record, or undefined (the empty set)
DB_get(store, id) == IF id \in DOMAIN store THEN {store[id]} ELSE {}

\* store.put(item) on a store with keyPath 'id': insert or replace
DB_put(store, item) ==
    [k \in DOMAIN store \cup {item.id} |-> IF k = item.id THEN item ELSE store[k]]

\* store.clear() in place of store.delete(id)
DB_clear(store, id) == EmptyStore

\* store.delete(id)
DB_delete(store, id) == [k \in DOMAIN store \ {id} |-> store[k]]

\* store.getAll(): the records in key order (the ids of the model are "0" .. "9")
RECURSIVE KeySeq(_, _)
KeySeq(store, n) ==
    IF n > MaxClock THEN <<>>
    ELSE IF ToString(n) \in DOMAIN store
         THEN <<store[ToString(n)]>> \o KeySeq(store, n + 1)
         ELSE KeySeq(store, n + 1)

DB_getAll(store) == KeySeq(store, 0)

\* a request of a 'readonly' transaction (DB.get, DB.getAll)
IsRead(t) == tasks[t].pc \in {"get", "get2", "getAll"}

\* The engine may serve the request of slot t on store 'buttons': it is the oldest
\* waiting one, or it is a read and only reads were issued before it.
CanServe(t) ==
    \E i \in 1..Len(btnQ) :
        /\ btnQ[i] = t
        /\ \/ i = 1
           \/ IsRead(t) /\ \A j \in 1..(i - 1) : IsRead(btnQ[j])

\* a transaction on store 'stats': kind "inc" (incrementStat), "reset" (resetStats),
\* "get" (getStats); an "inc" transaction first reads (phase "get"), then writes val
Tx(kind, slot, key, phase, val) ==
    [kind |-> kind, slot |-> slot, key |-> key, phase |-> phase, val |-> val]

StatsCanServe(i) ==
    /\ i \in 1..Len(statsQ)
    /\ \/ i = 1
       \/ statsQ[i].kind = "get" /\ \A j \in 1..(i - 1) : statsQ[j].kind = "get"

\* reqX.result.value || 0, with 0 when there is no record
StatRead(store, key) == IF key \in DOMAIN store THEN store[key] ELSE 0

StatPut(store, key, value) ==
    [k \in DOMAIN store \cup {key} |-> IF k = key THEN value ELSE store[k]]

\* the check left out
NotInitializedNever == FALSE

\* !DB.db (lines 40, 50, 60, 73, 146, 172, 202): DB.init has not set the handle
NotInitialized == db # "open"

----------------------------------------------------------------------------
(* History bookkeeping (not program state) *)

Quiescent ==
    /\ \A t \in 0..MaxTasks : ~Running(t)
    /\ btnQ = <<>>
    /\ statsQ = <<>>

\* a call as the batch remembers it; conc: another call was in flight when it started
Call(op, id, key, arg) ==
    [op |-> op, id |-> id, key |-> key, arg |-> arg,
     conc |-> \E t \in 0..MaxTasks : Running(t)]

\* the batch after a call starts: a new batch when the stores were at rest;
\* total counts the calls of the session
Called(call) ==
    IF Quiescent
    THEN [n |-> 1, total |-> batch.total + 1, buttons |-> buttons, stats |-> stats,
          legacy |-> legacy, calls |-> <<call>>]
    ELSE IF batch.n >= MaxTasks
         THEN [n |-> MaxTasks + 1, total |-> batch.total + 1, buttons |-> EmptyStore,
               stats |-> EmptyStore, legacy |-> NoLegacy, calls |-> <<>>]
         ELSE [batch EXCEPT !.n = @ + 1, !.total = @ + 1, !.calls = Append(@, call)]

\* the UI may start another call in this session
MayCall == batch.total < MaxCalls

\* the lowest slot without a call in flight
HasFreeSlot == \E t \in Slots : ~Running(t)
FreeSlot == CHOOSE t \in Slots : ~Running(t) /\ \A u \in Slots : u < t => Running(u)

----------------------------------------------------------------------------
(* Initial state: a page load on a fresh database *)

InitTask == Task("initApp", "open", "", "", {}, {}, <<>>, ZeroExpected)

\* the batch of a session that starts on stores b, s and legacy item l: initApp alone
StartBatch(b, s, l) ==
    [n |-> 1, total |-> 0, buttons |-> b, stats |-> s, legacy |-> l,
     calls |-> <<[op |-> "initApp", id |-> "", key |-> "", arg |-> {}, conc |-> FALSE]>>]

Fresh(legacyChoices) ==
    /\ db = "null"
    /\ buttons = EmptyStore
    /\ stats = EmptyStore
    /\ legacy \in legacyChoices
    /\ clock = FirstNow
    /\ tasks = [t \in 0..MaxTasks |-> IF t = 0 THEN InitTask ELSE IdleTask]
    /\ btnQ = <<>>
    /\ statsQ = <<>>
    /\ last = NoLast
    /\ expected = ZeroExpected
    /\ batch = StartBatch(EmptyStore, EmptyStore, legacy)

Init == Fresh(LegacyChoices)

\* first sessions with at most one legacy record
InitSmall == Fresh({NoLegacy, [kind |-> "array", items |-> <<Legacy1>>]})

\* first sessions with one legacy record
InitOne == Fresh({[kind |-> "array", items |-> <<Legacy1>>]})

----------------------------------------------------------------------------
(* Storage.migrateIfNeeded, lines 88-105, and initApp, lines 241-251 *)

\* JSON.parse(raw): throws on text that is not JSON
JSONParse(raw) ==
    IF raw.kind = "invalid"
    THEN [threw |-> TRUE, value |-> <<>>]
    ELSE [threw |-> FALSE, value |-> raw.items]

\* buttons.length > 1 in place of buttons.length > 0
MigrationListOffByOne(raw) ==
    IF raw.kind = "array" /\ Len(raw.items) > 1 THEN raw.items ELSE <<>>

\* the records the copy loop of migrateIfNeeded will put, <<>> when it does nothing
MigrationList(raw) ==
    IF raw.kind = "absent" THEN <<>>
    ELSE LET parsed == JSONParse(raw)
         IN  IF parsed.threw THEN <<>>
             ELSE IF raw.kind = "array" /\ Len(parsed.value) > 0 THEN parsed.value
             ELSE <<>>

\* lines 90-93: what the try block of migrateIfNeeded does with the legacy item:
\* "copy" the list, "skip", or "throw" (JSON.parse threw)
MigrationTry(raw) ==
    IF raw.kind = "absent" THEN "skip"
    ELSE IF JSONParse(raw).threw THEN "throw"
    ELSE IF MigrationList(raw) # <<>> THEN "copy"
    ELSE "skip"

\* no catch: what the try block throws leaves migrateIfNeeded
MigrationNoCatch(outcome) == outcome

\* lines 102-104: catch (e) { console.error(...) }: migrateIfNeeded returns normally
MigrationCatch(outcome) == IF outcome = "throw" THEN "skip" ELSE outcome

\* a catch that only logs
InitAppCatchSilent == Res("undefined", {}, 0)

\* lines 247-250: initApp's catch tells the user to reload
InitAppCatch == Res("alert", {}, 0)

\* DB.init resolves: the handle is set; migrateIfNeeded runs to its first DB.put or,
\* with nothing to copy, returns and navigateTo('home') -> renderHome issues getAll;
\* what migrateIfNeeded throws goes to initApp's catch
DB_init_success ==
    /\ tasks[0].pc = "open"
    /\ db' = "open"
    /\ LET outcome == MigrationCatch(MigrationTry(legacy))
           list == MigrationList(legacy)
       IN  IF outcome = "throw"
           THEN /\ tasks' = [tasks EXCEPT ![0] = IdleTask]
                /\ last' = Returned(tasks[0], InitAppCatch)
                /\ btnQ' = btnQ
           ELSE /\ tasks' = [tasks EXCEPT ![0] =
                        IF outcome = "copy"
                        THEN [@ EXCEPT !.pc = "put", !.loc = {Head(list)}, !.list = Tail(list)]
                        ELSE [@ EXCEPT !.pc = "getAll"]]
                /\ last' = last
                /\ btnQ' = Append(btnQ, 0)
    /\ UNCHANGED <<buttons, stats, legacy, clock, statsQ, expected, batch>>

\* indexedDB.open fails: initApp's catch alerts; nothing else runs
DB_init_error ==
    /\ tasks[0].pc = "open"
    /\ db' = "failed"
    /\ tasks' = [tasks EXCEPT ![0] = IdleTask]
    /\ last' = Returned(tasks[0], InitAppCatch)
    /\ UNCHANGED <<buttons, stats, legacy, clock, btnQ, statsQ, expected, batch>>

\* the loop left after its first record
AfterCopyBreak(task) == [task EXCEPT !.pc = "remove", !.loc = {}, !.list = <<>>]

\* lines 95-98: the copy loop after one DB.put resolved: the next record, or,
\* after the last, on to removeItem
AfterCopy(task) ==
    IF task.list # <<>>
    THEN [task EXCEPT !.loc = {Head(task.list)}, !.list = Tail(task.list)]
    ELSE [task EXCEPT !.pc = "remove", !.loc = {}]

\* a DB.put of the copy loop is served and the record is in the store; the page may be
\* closed before the continuation of the last put has removed the legacy item
migrateIfNeeded_put ==
    /\ tasks[0].op = "initApp" /\ tasks[0].pc = "put"
    /\ CanServe(0)
    /\ \E btn \in tasks[0].loc : buttons' = DB_put(buttons, btn)
    /\ tasks' = [tasks EXCEPT ![0] = AfterCopy(@)]
    /\ btnQ' = IF tasks'[0].pc = "put" THEN Append(Without(btnQ, 0), 0) ELSE Without(btnQ, 0)
    /\ UNCHANGED <<db, stats, legacy, clock, statsQ, last, expected, batch>>

\* line 98: localStorage.removeItem(OLD_KEY); migrateIfNeeded returns and
\* navigateTo('home') -> renderHome issues getAll
migrateIfNeeded_remove ==
    /\ tasks[0].op = "initApp" /\ tasks[0].pc = "remove"
    /\ legacy' = NoLegacy
    /\ tasks' = [tasks EXCEPT ![0] = [@ EXCEPT !.pc = "getAll"]]
    /\ btnQ' = Append(btnQ, 0)
    /\ UNCHANGED <<db, buttons, stats, clock, statsQ, last, expected, batch>>

\* renderHome's getButtons is served; renderHeaderStats -> getStats opens its transaction
renderHome_getAll ==
    /\ tasks[0].op = "initApp" /\ tasks[0].pc = "getAll"
    /\ CanServe(0)
    /\ btnQ' = Without(btnQ, 0)
    /\ tasks' = [tasks EXCEPT ![0] = [@ EXCEPT !.pc = "stats"]]
    /\ statsQ' = Append(statsQ, Tx("get", 0, "", "get", 0))
    /\ UNCHANGED <<db, buttons, stats, legacy, clock, last, expected, batch>>

\* renderHeaderStats' getStats is served: the first data load is complete
renderHeaderStats_done ==
    \E i \in 1..Len(statsQ) :
        /\ StatsCanServe(i)
        /\ statsQ[i].kind = "get" /\ statsQ[i].slot = 0
        /\ statsQ' = RemoveAt(statsQ, i)
        /\ tasks' = [tasks EXCEPT ![0] = IdleTask]
        /\ last' = Returned(tasks[0], Res("home", {}, 0))
        /\ UNCHANGED <<db, buttons, stats, legacy, clock, btnQ, expected, batch>>

\* the home grid has been rendered: its buttons and the add form can be used
UIReady == db = "open" /\ (tasks[0].pc = "stats" \/ ~Running(0))

\* the page is reloaded: in-memory state is lost and pending transactions are dropped;
\* what the stores and localStorage hold stays
Reload ==
    /\ db' = "null"
    /\ tasks' = [t \in 0..MaxTasks |-> IF t = 0 THEN InitTask ELSE IdleTask]
    /\ btnQ' = <<>>
    /\ statsQ' = <<>>
    /\ last' = NoLast
    /\ expected' = [patience |-> StatRead(stats, "patience"),
                    desire |-> StatRead(stats, "desire"), reset |-> FALSE]
    /\ batch' = StartBatch(buttons, stats, legacy)
    /\ UNCHANGED <<buttons, stats, legacy, clock>>

\* time passes
Tick ==
    /\ clock < MaxClock
    /\ clock' = clock + 1
    /\ UNCHANGED <<db, buttons, stats, legacy, tasks, btnQ, statsQ, last, expected, batch>>

----------------------------------------------------------------------------
(* Storage.addButton, lines 110-120 *)

\* desireCount left out
NewButtonNoDesire(input, now, now2) ==
    Merge(input, [id |-> ToString(now), createdAt |-> now2, patienceCount |-> 0])

\* the entity addButton builds; Date.now() is read twice, at times now and now2
NewButton(input, now, now2) ==
    Merge(input, [id |-> ToString(now), createdAt |-> now2,
                  patienceCount |-> 0, desireCount |-> 0])

addButton(input) ==
    /\ UIReady /\ HasFreeSlot /\ MayCall
    /\ \E now2 \in {clock, Min(clock + 1, MaxClock)} :
        /\ clock' = now2
        /\ tasks' = [tasks EXCEPT ![FreeSlot] =
                Task("addButton", "put", ToString(clock), "", {input},
                     {NewButton(input, clock, now2)}, <<>>, ZeroExpected)]
    /\ btnQ' = Append(btnQ, FreeSlot)
    /\ last' = NoLast
    /\ batch' = Called(Call("addButton", ToString(clock), "", {input}))
    /\ UNCHANGED <<db, buttons, stats, legacy, statsQ, expected>>

\* the DB.put is served: success ? newButton : null
addButton_put(t) ==
    /\ tasks[t].op = "addButton" /\ tasks[t].pc = "put"
    /\ CanServe(t)
    /\ \E newButton \in tasks[t].loc :
        /\ buttons' = DB_put(buttons, newButton)
        /\ last' = Returned(tasks[t], Res("record", {newButton}, 0))
    /\ tasks' = [tasks EXCEPT ![t] = IdleTask]
    /\ btnQ' = Without(btnQ, t)
    /\ UNCHANGED <<db, stats, legacy, clock, statsQ, expected, batch>>

----------------------------------------------------------------------------
(* Storage.updateButton, lines 124-132 *)

updateButton(id, input) ==
    /\ UIReady /\ HasFreeSlot /\ MayCall
    /\ tasks' = [tasks EXCEPT ![FreeSlot] =
            Task("updateButton", "get", id, "", {input}, {}, <<>>, ZeroExpected)]
    /\ btnQ' = Append(btnQ, FreeSlot)
    /\ last' = NoLast
    /\ batch' = Called(Call("updateButton", id, "", {input}))
    /\ UNCHANGED <<db, buttons, stats, legacy, clock, statsQ, expected>>

\* the spread the wrong way round: { ...input, ...current }
UpdatedReversed(current, input) == {Merge(i, c) : c \in current, i \in input}

\* after `current = await DB.get(id)`: the record to put, or {} when current is undefined
Updated(current, input) == {Merge(c, i) : c \in current, i \in input}

\* DB.get(id) is served: issue DB.put(updated), or return null
updateButton_get(t) ==
    /\ tasks[t].op = "updateButton" /\ tasks[t].pc = "get"
    /\ CanServe(t)
    /\ LET updated == Updated(DB_get(buttons, tasks[t].id), tasks[t].arg)
       IN  IF updated = {}
           THEN /\ tasks' = [tasks EXCEPT ![t] = IdleTask]
                /\ last' = Returned(tasks[t], Res("null", {}, 0))
                /\ btnQ' = Without(btnQ, t)
           ELSE /\ tasks' = [tasks EXCEPT ![t] = [@ EXCEPT !.pc = "put", !.loc = updated]]
                /\ last' = last
                /\ btnQ' = Append(Without(btnQ, t), t)
    /\ UNCHANGED <<db, buttons, stats, legacy, clock, statsQ, expected, batch>>

\* DB.put(updated) is served: success ? updated : null
updateButton_put(t) ==
    /\ tasks[t].op = "updateButton" /\ tasks[t].pc = "put"
    /\ CanServe(t)
    /\ \E updated \in tasks[t].loc :
        /\ buttons' = DB_put(buttons, updated)
        /\ last' = Returned(tasks[t], Res("record", {updated}, 0))
    /\ tasks' = [tasks EXCEPT ![t] = IdleTask]
    /\ btnQ' = Without(btnQ, t)
    /\ UNCHANGED <<db, stats, legacy, clock, statsQ, expected, batch>>

----------------------------------------------------------------------------
(* Storage.deleteButton, lines 133-135 *)

deleteButton(id) ==
    /\ UIReady /\ HasFreeSlot /\ MayCall
    /\ tasks' = [tasks EXCEPT ![FreeSlot] =
            Task("deleteButton", "delete", id, "", {}, {}, <<>>, ZeroExpected)]
    /\ btnQ' = Append(btnQ, FreeSlot)
    /\ last' = NoLast
    /\ batch' = Called(Call("deleteButton", id, "", {}))
    /\ UNCHANGED <<db, buttons, stats, legacy, clock, statsQ, expected>>

\* DB.delete(id) is served; the boolean is dropped and the call returns undefined
deleteButton_done(t) ==
    /\ tasks[t].op = "deleteButton" /\ tasks[t].pc = "delete"
    /\ CanServe(t)
    /\ buttons' = DB_delete(buttons, tasks[t].id)
    /\ tasks' = [tasks EXCEPT ![t] = IdleTask]
    /\ last' = Returned(tasks[t], Res("undefined", {}, 0))
    /\ btnQ' = Without(btnQ, t)
    /\ UNCHANGED <<db, stats, legacy, clock, statsQ, expected, batch>>

----------------------------------------------------------------------------
(* Storage.getButtons, lines 107-109, as renderHome calls it after a click (lines 387, 403) *)

\* DB.getAll rejects "DB not initialized" on a handle that is not open, and the await in
\* getButtons throws it on to renderHome
getButtons ==
    /\ HasFreeSlot /\ MayCall
    /\ LET task == Task("getButtons", "getAll", "", "", {}, {}, <<>>, ZeroExpected)
       IN  IF NotInitialized
           THEN /\ tasks' = tasks
                /\ last' = Returned([task EXCEPT !.pc = "nodb"], Res("rejected", {}, 0))
                /\ btnQ' = btnQ
           ELSE /\ tasks' = [tasks EXCEPT ![FreeSlot] = task]
                /\ last' = NoLast
                /\ btnQ' = Append(btnQ, FreeSlot)
    /\ batch' = Called(Call("getButtons", "", "", {}))
    /\ UNCHANGED <<db, buttons, stats, legacy, clock, statsQ, expected>>

\* request.onsuccess: resolve(request.result || [])
getButtons_done(t) ==
    /\ tasks[t].op = "getButtons" /\ tasks[t].pc = "getAll"
    /\ CanServe(t)
    /\ LET all == DB_getAll(buttons)
       IN  last' = Returned(tasks[t], Res("list", {all[i] : i \in 1..Len(all)}, Len(all)))
    /\ tasks' = [tasks EXCEPT ![t] = IdleTask]
    /\ btnQ' = Without(btnQ, t)
    /\ UNCHANGED <<db, buttons, stats, legacy, clock, statsQ, expected, batch>>

\* request.onerror: reject(request.error)
getButtons_error(t) ==
    /\ tasks[t].op = "getButtons" /\ tasks[t].pc = "getAll"
    /\ CanServe(t)
    /\ last' = Returned([tasks[t] EXCEPT !.pc = "getAll_error"], Res("rejected", {}, 0))
    /\ tasks' = [tasks EXCEPT ![t] = IdleTask]
    /\ btnQ' = Without(btnQ, t)
    /\ UNCHANGED <<db, buttons, stats, legacy, clock, statsQ, expected, batch>>

----------------------------------------------------------------------------
(* Failed requests on store 'buttons': request.onerror of DB.get, DB.put, DB.delete *)

\* DB.put resolves false (line 67): addButton returns null
addButton_put_error(t) ==
    /\ tasks[t].op = "addButton" /\ tasks[t].pc = "put"
    /\ CanServe(t)
    /\ last' = Returned([tasks[t] EXCEPT !.pc = "put_error"], Res("null", {}, 0))
    /\ tasks' = [tasks EXCEPT ![t] = IdleTask]
    /\ btnQ' = Without(btnQ, t)
    /\ UNCHANGED <<db, buttons, stats, legacy, clock, statsQ, expected, batch>>

\* DB.get rejects (line 55): the await in updateButton throws it on to the caller
updateButton_get_error(t) ==
    /\ tasks[t].op = "updateButton" /\ tasks[t].pc = "get"
    /\ CanServe(t)
    /\ last' = Returned([tasks[t] EXCEPT !.pc = "get_error"], Res("rejected", {}, 0))
    /\ tasks' = [tasks EXCEPT ![t] = IdleTask]
    /\ btnQ' = Without(btnQ, t)
    /\ UNCHANGED <<db, buttons, stats, legacy, clock, statsQ, expected, batch>>

\* DB.put resolves false (line 67): updateButton returns null
updateButton_put_error(t) ==
    /\ tasks[t].op = "updateButton" /\ tasks[t].pc = "put"
    /\ CanServe(t)
    /\ last' = Returned([tasks[t] EXCEPT !.pc = "put_error"], Res("null", {}, 0))
    /\ tasks' = [tasks EXCEPT ![t] = IdleTask]
    /\ btnQ' = Without(btnQ, t)
    /\ UNCHANGED <<db, buttons, stats, legacy, clock, statsQ, expected, batch>>

\* DB.put resolves false (line 67) in the copy loop of migrateIfNeeded, which drops the
\* boolean (line 96) and goes on with the next record, or with removeItem
migrateIfNeeded_put_error ==
    /\ tasks[0].op = "initApp" /\ tasks[0].pc = "put"
    /\ CanServe(0)
    /\ tasks' = [tasks EXCEPT ![0] = AfterCopy(@)]
    /\ btnQ' = IF tasks'[0].pc = "put" THEN Append(Without(btnQ, 0), 0) ELSE Without(btnQ, 0)
    /\ UNCHANGED <<db, buttons, stats, legacy, clock, statsQ, last, expected, batch>>

\* DB.delete resolves false (line 78); deleteButton drops the boolean and returns undefined
deleteButton_error(t) ==
    /\ tasks[t].op = "deleteButton" /\ tasks[t].pc = "delete"
    /\ CanServe(t)
    /\ last' = Returned([tasks[t] EXCEPT !.pc = "delete_error"], Res("undefined", {}, 0))
    /\ tasks' = [tasks EXCEPT ![t] = IdleTask]
    /\ btnQ' = Without(btnQ, t)
    /\ UNCHANGED <<db, buttons, stats, legacy, clock, statsQ, expected, batch>>

----------------------------------------------------------------------------
(* Storage.incrementButtonStat, lines 189-198 *)

\* the two fields the wrong way round
CountFieldSwapped(type) == IF type = "patience" THEN "desireCount" ELSE "patienceCount"

\* type === 'patience' ? 'patienceCount' : 'desireCount'
CountField(type) == IF type = "patience" THEN "patienceCount" ELSE "desireCount"

\* the count lowered
BumpedDown(button, type) ==
    Merge(button, [f \in {CountField(type)} |-> OrZero(button, CountField(type)) - 1])

\* button[key] = (button[key] || 0) + 1
Bumped(button, type) ==
    Merge(button, [f \in {CountField(type)} |-> OrZero(button, CountField(type)) + 1])

incrementButtonStat(id, type) ==
    /\ UIReady /\ HasFreeSlot /\ MayCall
    /\ id \in DOMAIN buttons => OrZero(buttons[id], CountField(type)) < MaxCount
    /\ tasks' = [tasks EXCEPT ![FreeSlot] =
            Task("incrementButtonStat", "get", id, type, {}, {}, <<>>, ZeroExpected)]
    /\ btnQ' = Append(btnQ, FreeSlot)
    /\ last' = NoLast
    /\ batch' = Called(Call("incrementButtonStat", id, type, {}))
    /\ UNCHANGED <<db, buttons, stats, legacy, clock, statsQ, expected>>

\* Storage.getButton(id) is served: return when absent, else bump the count and call
\* Storage.updateButton(id, button), which issues its own DB.get(id)
incrementButtonStat_get(t) ==
    /\ tasks[t].op = "incrementButtonStat" /\ tasks[t].pc = "get"
    /\ CanServe(t)
    /\ LET button == DB_get(buttons, tasks[t].id)
       IN  IF button = {}
           THEN /\ tasks' = [tasks EXCEPT ![t] = IdleTask]
                /\ last' = Returned(tasks[t], Res("undefined", {}, 0))
                /\ btnQ' = Without(btnQ, t)
           ELSE /\ tasks' = [tasks EXCEPT ![t] =
                        [@ EXCEPT !.pc = "get2",
                                  !.arg = {Bumped(b, tasks[t].key) : b \in button}]]
                /\ last' = last
                /\ btnQ' = Append(Without(btnQ, t), t)
    /\ UNCHANGED <<db, buttons, stats, legacy, clock, statsQ, expected, batch>>

\* the DB.get of the inner updateButton is served
incrementButtonStat_update_get(t) ==
    /\ tasks[t].op = "incrementButtonStat" /\ tasks[t].pc = "get2"
    /\ CanServe(t)
    /\ LET updated == Updated(DB_get(buttons, tasks[t].id), tasks[t].arg)
       IN  IF updated = {}
           THEN /\ tasks' = [tasks EXCEPT ![t] = IdleTask]
                /\ last' = Returned([tasks[t] EXCEPT !.arg = {}], Res("undefined", {}, 0))
                /\ btnQ' = Without(btnQ, t)
           ELSE /\ tasks' = [tasks EXCEPT ![t] = [@ EXCEPT !.pc = "put", !.loc = updated]]
                /\ last' = last
                /\ btnQ' = Append(Without(btnQ, t), t)
    /\ UNCHANGED <<db, buttons, stats, legacy, clock, statsQ, expected, batch>>

\* the DB.put of the inner updateButton is served; its result is dropped
incrementButtonStat_update_put(t) ==
    /\ tasks[t].op = "incrementButtonStat" /\ tasks[t].pc = "put"
    /\ CanServe(t)
    /\ \E updated \in tasks[t].loc : buttons' = DB_put(buttons, updated)
    /\ tasks' = [tasks EXCEPT ![t] = IdleTask]
    /\ last' = Returned([tasks[t] EXCEPT !.arg = {}], Res("undefined", {}, 0))
    /\ btnQ' = Without(btnQ, t)
    /\ UNCHANGED <<db, stats, legacy, clock, statsQ, expected, batch>>

----------------------------------------------------------------------------
(* Storage.incrementStat, lines 170-187 *)

\* the put issued on a transaction of its own, created after the read completed
IncAfterGetNewTx(q, i, newVal) ==
    Append(RemoveAt(q, i), [q[i] EXCEPT !.phase = "put", !.val = newVal])

\* lines 181-183: the put is issued on the transaction that read, which stays open for it
IncAfterGet(q, i, newVal) == [q EXCEPT ![i] = [@ EXCEPT !.phase = "put", !.val = newVal]]

incrementStat(key) ==
    /\ UIReady /\ HasFreeSlot /\ MayCall
    /\ expected[key] < MaxStat
    /\ Len(statsQ) < MaxPending
    /\ LET task == Task("incrementStat", "stats", "", key, {}, {}, <<>>, ZeroExpected)
       IN  IF NotInitialized
           THEN /\ tasks' = tasks
                /\ last' = Returned([task EXCEPT !.pc = "nodb"], Res("undefined", {}, 0))
                /\ UNCHANGED <<statsQ, expected>>
           ELSE /\ tasks' = [tasks EXCEPT ![FreeSlot] = task]
                /\ last' = NoLast
                /\ statsQ' = Append(statsQ, Tx("inc", FreeSlot, key, "get", 0))
                /\ expected' = [expected EXCEPT ![key] = @ + 1, !.reset = FALSE]
    /\ batch' = Called(Call("incrementStat", "", key, {}))
    /\ UNCHANGED <<db, buttons, stats, legacy, clock, btnQ>>

\* reqGet.onsuccess: compute newVal, issue the put, resolve(newVal)
incrementStat_get ==
    \E i \in 1..Len(statsQ) :
        /\ StatsCanServe(i)
        /\ statsQ[i].kind = "inc" /\ statsQ[i].phase = "get"
        /\ tasks[statsQ[i].slot].op = "incrementStat"
        /\ LET newVal == StatRead(stats, statsQ[i].key) + 1
           IN  /\ statsQ' = IncAfterGet(statsQ, i, newVal)
               /\ last' = Returned(tasks[statsQ[i].slot], Res("number", {}, newVal))
        /\ tasks' = [tasks EXCEPT ![statsQ[i].slot] = IdleTask]
        /\ UNCHANGED <<db, buttons, stats, legacy, clock, btnQ, expected, batch>>

\* the put is served and the transaction commits
incrementStat_put ==
    \E i \in 1..Len(statsQ) :
        /\ StatsCanServe(i)
        /\ statsQ[i].kind = "inc" /\ statsQ[i].phase = "put"
        /\ stats' = StatPut(stats, statsQ[i].key, statsQ[i].val)
        /\ statsQ' = RemoveAt(statsQ, i)
        /\ UNCHANGED <<db, buttons, legacy, clock, tasks, btnQ, last, expected, batch>>

----------------------------------------------------------------------------
(* The click handlers of 'btn-flow-do' and 'btn-flow-dont', lines 740-755 *)

\* a tap on "do" (type desire) or "don't" (type patience) for the button that was opened
\* from the grid (activeButtonId, line 318): the handler calls Storage.incrementStat(type)
btn_flow_click(id, type) ==
    /\ UIReady /\ HasFreeSlot /\ MayCall
    /\ id \in DOMAIN buttons
    /\ OrZero(buttons[id], CountField(type)) < MaxCount
    /\ expected[type] < MaxStat
    /\ Len(statsQ) < MaxPending
    /\ tasks' = [tasks EXCEPT ![FreeSlot] =
            Task("btn_flow_click", "stats", id, type, {}, {}, <<>>, ZeroExpected)]
    /\ statsQ' = Append(statsQ, Tx("inc", FreeSlot, type, "get", 0))
    /\ expected' = [expected EXCEPT ![type] = @ + 1, !.reset = FALSE]
    /\ last' = NoLast
    /\ batch' = Called(Call("btn_flow_click", id, type, {}))
    /\ UNCHANGED <<db, buttons, stats, legacy, clock, btnQ>>

\* reqGet.onsuccess of the handler's incrementStat: the put is issued, the promise
\* resolves, and the handler goes on to call Storage.incrementButtonStat(activeButtonId, type)
btn_flow_click_incrementStat_get ==
    \E i \in 1..Len(statsQ) :
        /\ StatsCanServe(i)
        /\ statsQ[i].kind = "inc" /\ statsQ[i].phase = "get"
        /\ tasks[statsQ[i].slot].op = "btn_flow_click"
        /\ statsQ' = IncAfterGet(statsQ, i, StatRead(stats, statsQ[i].key) + 1)
        /\ tasks' = [tasks EXCEPT ![statsQ[i].slot] =
                Task("incrementButtonStat", "get", @.id, @.key, {}, {}, <<>>, ZeroExpected)]
        /\ btnQ' = Append(btnQ, statsQ[i].slot)
        /\ UNCHANGED <<db, buttons, stats, legacy, clock, last, expected, batch>>

----------------------------------------------------------------------------
(* Storage.getStats, lines 138-168 *)

\* desire read from the request for 'patience'
StatsPairSame(store) ==
    [patience |-> StatRead(store, "patience"), desire |-> StatRead(store, "patience")]

\* what the cascade of the two onsuccess handlers resolves with
StatsPair(store) ==
    [patience |-> StatRead(store, "patience"), desire |-> StatRead(store, "desire")]

getStats ==
    /\ HasFreeSlot /\ MayCall
    /\ Len(statsQ) < MaxPending
    /\ LET task == Task("getStats", "stats", "", "", {}, {}, <<>>, expected)
       IN  IF NotInitialized
           THEN /\ tasks' = tasks
                /\ last' = Returned([task EXCEPT !.pc = "nodb"], Res("stats", {EmptyStore}, 0))
                /\ statsQ' = statsQ
           ELSE /\ tasks' = [tasks EXCEPT ![FreeSlot] = task]
                /\ last' = NoLast
                /\ statsQ' = Append(statsQ, Tx("get", FreeSlot, "", "get", 0))
    /\ batch' = Called(Call("getStats", "", "", {}))
    /\ UNCHANGED <<db, buttons, stats, legacy, clock, btnQ, expected>>

\* both reads are served: resolve({ patience, desire })
getStats_done ==
    \E i \in 1..Len(statsQ) :
        /\ StatsCanServe(i)
        /\ statsQ[i].kind = "get" /\ statsQ[i].slot # 0
        /\ statsQ' = RemoveAt(statsQ, i)
        /\ tasks' = [tasks EXCEPT ![statsQ[i].slot] = IdleTask]
        /\ last' = Returned(tasks[statsQ[i].slot], Res("stats", {StatsPair(stats)}, 0))
        /\ UNCHANGED <<db, buttons, stats, legacy, clock, btnQ, expected, batch>>

\* reqPatience.onerror (line 165): resolve({ patience: 0, desire: 0 }); for the call of
\* renderHeaderStats (slot 0) the first data load is complete
getStats_patience_error ==
    \E i \in 1..Len(statsQ) :
        /\ StatsCanServe(i)
        /\ statsQ[i].kind = "get"
        /\ statsQ' = RemoveAt(statsQ, i)
        /\ tasks' = [tasks EXCEPT ![statsQ[i].slot] = IdleTask]
        /\ last' = IF statsQ[i].slot = 0
                   THEN Returned(tasks[0], Res("home", {}, 0))
                   ELSE Returned([tasks[statsQ[i].slot] EXCEPT !.pc = "get_error"],
                                 Res("stats", {[patience |-> 0, desire |-> 0]}, 0))
        /\ UNCHANGED <<db, buttons, stats, legacy, clock, btnQ, expected, batch>>

\* the read of 'patience' succeeds and the read of 'desire' fails: reqDesire has an
\* onsuccess handler (line 159) and no onerror handler, so nothing calls resolve; the
\* transaction is over and the caller stays at its await
getStats_desire_error ==
    \E i \in 1..Len(statsQ) :
        /\ StatsCanServe(i)
        /\ statsQ[i].kind = "get"
        /\ statsQ' = RemoveAt(statsQ, i)
        /\ UNCHANGED <<db, buttons, stats, legacy, clock, tasks, btnQ, last, expected, batch>>

----------------------------------------------------------------------------
(* Storage.resetStats, lines 201-221 *)

\* only patienceCount is zeroed
ZeroedPatienceOnly(button) == Merge(button, [patienceCount |-> 0])

\* button.patienceCount = 0; button.desireCount = 0
Zeroed(button) == Merge(button, [patienceCount |-> 0, desireCount |-> 0])

\* both store.put calls are issued on one transaction; the awaited promise is already
\* resolved, so getButtons is issued in the same turn
resetStats ==
    /\ HasFreeSlot /\ MayCall
    /\ Len(statsQ) < MaxPending
    /\ LET task == Task("resetStats", "getAll", "", "", {}, {}, <<>>, ZeroExpected)
       IN  IF NotInitialized
           THEN /\ tasks' = tasks
                /\ last' = Returned([task EXCEPT !.pc = "nodb"], Res("undefined", {}, 0))
                /\ UNCHANGED <<statsQ, btnQ, expected>>
           ELSE /\ tasks' = [tasks EXCEPT ![FreeSlot] = task]
                /\ last' = NoLast
                /\ statsQ' = Append(statsQ, Tx("reset", FreeSlot, "", "put", 0))
                /\ btnQ' = Append(btnQ, FreeSlot)
                /\ expected' = [patience |-> 0, desire |-> 0, reset |-> TRUE]
    /\ batch' = Called(Call("resetStats", "", "", {}))
    /\ UNCHANGED <<db, buttons, stats, legacy, clock>>

\* the two puts of the counter transaction are served and it commits
resetStats_tx ==
    \E i \in 1..Len(statsQ) :
        /\ StatsCanServe(i)
        /\ statsQ[i].kind = "reset"
        /\ stats' = StatPut(StatPut(stats, "patience", 0), "desire", 0)
        /\ statsQ' = RemoveAt(statsQ, i)
        /\ UNCHANGED <<db, buttons, legacy, clock, tasks, btnQ, last, expected, batch>>

\* getButtons is served: start the loop over the buttons read
resetStats_getAll(t) ==
    /\ tasks[t].op = "resetStats" /\ tasks[t].pc = "getAll"
    /\ CanServe(t)
    /\ LET all == DB_getAll(buttons)
       IN  IF all = <<>>
           THEN /\ tasks' = [tasks EXCEPT ![t] = IdleTask]
                /\ last' = Returned(tasks[t], Res("undefined", {}, 0))
                /\ btnQ' = Without(btnQ, t)
           ELSE /\ tasks' = [tasks EXCEPT ![t] =
                        [@ EXCEPT !.pc = "put", !.loc = {Zeroed(Head(all))}, !.list = Tail(all)]]
                /\ last' = last
                /\ btnQ' = Append(Without(btnQ, t), t)
    /\ UNCHANGED <<db, buttons, stats, legacy, clock, statsQ, expected, batch>>

\* a DB.put of the loop is served: next button, or return
resetStats_put(t) ==
    /\ tasks[t].op = "resetStats" /\ tasks[t].pc = "put"
    /\ CanServe(t)
    /\ \E button \in tasks[t].loc : buttons' = DB_put(buttons, button)
    /\ IF tasks[t].list = <<>>
       THEN /\ tasks' = [tasks EXCEPT ![t] = IdleTask]
            /\ last' = Returned(tasks[t], Res("undefined", {}, 0))
            /\ btnQ' = Without(btnQ, t)
       ELSE /\ tasks' = [tasks EXCEPT ![t] =
                    [@ EXCEPT !.loc = {Zeroed(Head(tasks[t].list))}, !.list = Tail(tasks[t].list)]]
            /\ last' = last
            /\ btnQ' = Append(Without(btnQ, t), t)
    /\ UNCHANGED <<db, stats, legacy, clock, statsQ, expected, batch>>

----------------------------------------------------------------------------
(* Specifications *)

\* the startup sequence of initApp
Startup ==
    \/ DB_init_success
    \/ DB_init_error
    \/ migrateIfNeeded_put
    \/ migrateIfNeeded_remove
    \/ renderHome_getAll
    \/ renderHeaderStats_done

\* the calls on buttons
ButtonOps ==
    \/ \E input \in FormInputs : addButton(input)
    \/ \E t \in Slots : addButton_put(t)
    \/ \E id \in Ids, input \in PartialInputs : updateButton(id, input)
    \/ \E t \in Slots : updateButton_get(t)
    \/ \E t \in Slots : updateButton_put(t)
    \/ \E id \in Ids : deleteButton(id)
    \/ \E t \in Slots : deleteButton_done(t)
    \/ \E id \in Ids, type \in StatKeys : incrementButtonStat(id, type)
    \/ \E t \in Slots : incrementButtonStat_get(t)
    \/ \E t \in Slots : incrementButtonStat_update_get(t)
    \/ \E t \in Slots : incrementButtonStat_update_put(t)

\* the calls on buttons, as time passes
ButtonCalls == Tick \/ ButtonOps

\* the calls on the global counters
StatCalls ==
    \/ \E key \in StatKeys : incrementStat(key)
    \/ incrementStat_get
    \/ incrementStat_put
    \/ getStats
    \/ getStats_done
    \/ resetStats
    \/ resetStats_tx
    \/ \E t \in Slots : resetStats_getAll(t)
    \/ \E t \in Slots : resetStats_put(t)

\* the reads and writes of the buttons, with requests that fail
Faults ==
    \/ getButtons
    \/ \E t \in Slots : getButtons_done(t)
    \/ \E t \in Slots : getButtons_error(t)
    \/ \E t \in Slots : addButton_put_error(t)
    \/ \E t \in Slots : updateButton_get_error(t)
    \/ \E t \in Slots : updateButton_put_error(t)
    \/ \E t \in Slots : deleteButton_error(t)
    \/ migrateIfNeeded_put_error

\* the reads of the counters, with requests that fail
StatFaults ==
    \/ getStats_patience_error
    \/ getStats_desire_error

\* the taps on "do" / "don't"
Taps ==
    \/ \E id \in Ids, type \in StatKeys : btn_flow_click(id, type)
    \/ btn_flow_click_incrementStat_get

Next == Startup \/ Reload \/ ButtonCalls \/ StatCalls \/ Faults \/ StatFaults \/ Taps

Spec == Init /\ [][Next]_vars

\* sessions that use the global counters only
NextStats == Startup \/ Reload \/ StatCalls

SpecStats == Init /\ [][NextStats]_vars

\* one session that uses the buttons only
NextButtons == Startup \/ ButtonCalls

SpecButtons == InitSmall /\ [][NextButtons]_vars

\* one session that counts: per-button counts, global counters, reset
NextCounts ==
    \/ Startup
    \/ StatCalls
    \/ \E id \in Ids, type \in StatKeys : incrementButtonStat(id, type)
    \/ \E t \in Slots : incrementButtonStat_get(t)
    \/ \E t \in Slots : incrementButtonStat_update_get(t)
    \/ \E t \in Slots : incrementButtonStat_update_put(t)

SpecCounts == Init /\ [][NextCounts]_vars

\* sessions that migrate, add and delete
NextMigrate ==
    \/ Startup
    \/ Reload
    \/ Tick
    \/ \E input \in FormInputs : addButton(input)
    \/ \E t \in Slots : addButton_put(t)
    \/ \E id \in Ids : deleteButton(id)
    \/ \E t \in Slots : deleteButton_done(t)

SpecMigrate == Init /\ [][NextMigrate]_vars

\* one session that adds, edits and deletes on a store whose requests may fail
NextFaults ==
    \/ Startup
    \/ Faults
    \/ \E input \in FormInputs : addButton(input)
    \/ \E t \in Slots : addButton_put(t)
    \/ \E id \in Ids, input \in PartialInputs : updateButton(id, input)
    \/ \E t \in Slots : updateButton_get(t)
    \/ \E t \in Slots : updateButton_put(t)
    \/ \E id \in Ids : deleteButton(id)
    \/ \E t \in Slots : deleteButton_done(t)

\* sessions on a store that starts empty, with no legacy list, in which the user taps
\* "do" / "don't", resets the history, deletes and adds (the handlers of lines 740-755,
\* 399-406, 383-389 and 607-671; what they render changes no store); the page is
\* reloaded only when nothing is in flight
NextHandlers ==
    \/ DB_init_success
    \/ DB_init_error
    \/ renderHome_getAll
    \/ renderHeaderStats_done
    \/ Quiescent /\ Reload
    \/ \E id \in Ids, type \in StatKeys : btn_flow_click(id, type)
    \/ btn_flow_click_incrementStat_get
    \/ incrementStat_put
    \/ \E t \in Slots : incrementButtonStat_get(t)
    \/ \E t \in Slots : incrementButtonStat_update_get(t)
    \/ \E t \in Slots : incrementButtonStat_update_put(t)
    \/ resetStats
    \/ resetStats_tx
    \/ \E t \in Slots : resetStats_getAll(t)
    \/ \E t \in Slots : resetStats_put(t)
    \/ \E id \in Ids : deleteButton(id)
    \/ \E t \in Slots : deleteButton_done(t)
    \/ \E input \in FormInputs : addButton(input)
    \/ \E t \in Slots : addButton_put(t)

SpecHandlers == Fresh({NoLegacy}) /\ [][NextHandlers]_vars

\* one session, after a migration of one record, with every call of the repository
\* (the clock moves with the calls of addButton)
NextAll == Startup \/ ButtonOps \/ StatCalls

SpecAll == InitOne /\ [][NextAll]_vars

SpecFaults == InitSmall /\ [][NextFaults]_vars

\* one session that uses the global counters, on a store whose reads may fail
NextStatFaults == Startup \/ StatCalls \/ StatFaults

SpecStatFaults == InitSmall /\ [][NextStatFaults]_vars

----------------------------------------------------------------------------
(* Properties *)

\* no call is in flight
AtRest == \A t \in 0..MaxTasks : ~Running(t)

\* a call of op was made with the stores at rest, has returned, and no call followed it
Solo(op) ==
    /\ batch.n = 1
    /\ batch.calls[1].op = op
    /\ last.op = op
    /\ last.from # "nodb"
    /\ AtRest

\* record r has field f with value v
Has(r, f, v) == f \in DOMAIN r /\ r[f] = v

\* C1: whenever no writing transaction on the counters is pending, each stored counter
\* equals its value when last loaded or zeroed plus the number of incrementStat calls made
\* on it since, however the calls overlapped: no increment is lost.
C1_NoLostIncrement ==
    (\A i \in 1..Len(statsQ) : statsQ[i].kind = "get")
        => \A key \in StatKeys : StatRead(stats, key) = expected[key]

\* two incrementStat calls on one key were in flight together, and the counter rose by 2
C1_Witness ==
    /\ Quiescent
    /\ batch.n = 2
    /\ batch.calls[1].op = "incrementStat" /\ batch.calls[2].op = "incrementStat"
    /\ batch.calls[1].key = batch.calls[2].key
    /\ batch.calls[2].conc
    /\ StatRead(stats, batch.calls[1].key) = StatRead(batch.stats, batch.calls[1].key) + 2

\* C2 (the claim as stated): when two incrementButtonStat(id, kind) calls on one stored
\* button were in flight together and both have returned, the count is 2 higher.
C2_BothApplied ==
    ( /\ AtRest
      /\ batch.n = 2
      /\ batch.calls[1].op = "incrementButtonStat"
      /\ batch.calls[2].op = "incrementButtonStat"
      /\ batch.calls[1].id = batch.calls[2].id
      /\ batch.calls[1].key = batch.calls[2].key
      /\ batch.calls[2].conc
      /\ batch.calls[1].id \in DOMAIN batch.buttons )
    => LET id == batch.calls[1].id
           f == IF batch.calls[1].key = "patience" THEN "patienceCount" ELSE "desireCount"
       IN  /\ id \in DOMAIN buttons
           /\ OrZero(buttons[id], f) = OrZero(batch.buttons[id], f) + 2

\* C3: a getStats call on an open handle returns, for each counter, the number of
\* incrementStat calls made on that counter before it since the counters were last
\* loaded or zeroed (N after N awaited calls on an empty store); calls on one counter
\* do not show in the other.
C3_SequentialCount ==
    (last.op = "getStats" /\ last.from # "nodb")
        => last.res.rec = {[patience |-> last.exp.patience, desire |-> last.exp.desire]}

\* getStats returned desire = MaxStat on a store that never held a patience record
C3_Witness ==
    /\ last.op = "getStats"
    /\ last.res.rec = {[patience |-> 0, desire |-> MaxStat]}
    /\ "patience" \notin DOMAIN stats

C5_OnlyNamedCount ==
    Solo("incrementButtonStat")
        => LET id == last.id
               f == IF last.key = "patience" THEN "patienceCount" ELSE "desireCount"
               pre == batch.buttons
           IN  /\ stats = batch.stats
               /\ DOMAIN buttons = DOMAIN pre
               /\ \A k \in DOMAIN pre \ {id} : buttons[k] = pre[k]
               /\ id \in DOMAIN pre =>
                    /\ DOMAIN buttons[id] = DOMAIN pre[id] \cup {f}
                    /\ buttons[id][f] = OrZero(pre[id], f) + 1
                    /\ \A g \in DOMAIN pre[id] \ {f} : buttons[id][g] = pre[id][g]

\* incrementButtonStat ran alone on a stored button, beside another stored button, and
\* changed the record
C5_Witness ==
    /\ Solo("incrementButtonStat")
    /\ last.id \in DOMAIN batch.buttons
    /\ Cardinality(DOMAIN buttons) > 1
    /\ buttons[last.id] # batch.buttons[last.id]

\* C6 (the claim as stated): when an updateButton(id, input) call that ran alone has
\* returned, then for every partial input: a button stored under id before the call now
\* has every field of input with input's value and every other field as before; with no
\* button under id the call returned null and the collection is as before.
C6_Original ==
    Solo("updateButton")
        => \A input \in last.arg :
            LET id == last.id
                pre == batch.buttons
            IN  IF id \in DOMAIN pre
                THEN \E r \in DB_get(buttons, id) :
                        /\ \A f \in DOMAIN input : Has(r, f, input[f])
                        /\ \A f \in DOMAIN pre[id] \ DOMAIN input : Has(r, f, pre[id][f])
                ELSE last.res.tag = "null" /\ buttons = pre

\* C6 (amended): the same for every partial input that does not change the id, i.e. has
\* no id field or has id equal to the key it is called with.
C6_UpdateOverlay ==
    Solo("updateButton")
        => \A input \in last.arg :
            ("id" \notin DOMAIN input \/ input.id = last.id)
            => LET id == last.id
                   pre == batch.buttons
               IN  IF id \in DOMAIN pre
                   THEN \E r \in DB_get(buttons, id) :
                           /\ \A f \in DOMAIN input : Has(r, f, input[f])
                           /\ \A f \in DOMAIN pre[id] \ DOMAIN input : Has(r, f, pre[id][f])
                   ELSE last.res.tag = "null" /\ buttons = pre

\* updateButton ran alone on a stored button with an input without id, returned the
\* record, and the stored record changed
C6_Witness ==
    /\ Solo("updateButton")
    /\ last.id \in DOMAIN batch.buttons
    /\ \A input \in last.arg : "id" \notin DOMAIN input
    /\ last.res.tag = "record"
    /\ last.id \in DOMAIN buttons
    /\ buttons[last.id] # batch.buttons[last.id]

\* C7: when an addButton(input) call that ran alone has returned a record, getButton of
\* the returned id gives a record whose name, message, imageUrl and colorIndex are the
\* input's, with a non-empty id, a createdAt, patienceCount = 0 and desireCount = 0.
C7_AddRoundTrip ==
    (Solo("addButton") /\ last.res.tag = "record")
        => \A input \in last.arg, newButton \in last.res.rec :
            /\ "id" \in DOMAIN newButton
            /\ \E r \in DB_get(buttons, newButton.id) :
                    /\ \A f \in {"name", "message", "imageUrl", "colorIndex"} :
                            f \in DOMAIN input /\ Has(r, f, input[f])
                    /\ "id" \in DOMAIN r /\ r.id # ""
                    /\ "createdAt" \in DOMAIN r /\ r.createdAt \in FirstNow..MaxClock
                    /\ Has(r, "patienceCount", 0)
                    /\ Has(r, "desireCount", 0)

\* addButton ran alone and returned a record that is now stored
C7_Witness ==
    /\ Solo("addButton")
    /\ last.res.tag = "record"
    /\ last.id \in DOMAIN buttons
    /\ last.id \notin DOMAIN batch.buttons

\* C8 (the claim as stated): the id an addButton call is about to store is the id of no
\* stored button and of no other button being added.
C8_FreshId ==
    \A t \in Slots :
        (tasks[t].op = "addButton" /\ tasks[t].pc = "put")
        => /\ tasks[t].id \notin DOMAIN buttons
           /\ \A u \in Slots \ {t} :
                (tasks[u].op = "addButton" /\ tasks[u].pc = "put") => tasks[u].id # tasks[t].id

\* C9: when a deleteButton(id) call that ran alone has returned, getButton(id) finds
\* nothing, the call did not fail, and every other button is stored as before; with no
\* button under id the collection is as before.
C9_DeleteIdempotent ==
    Solo("deleteButton")
        => LET id == last.id
               pre == batch.buttons
           IN  /\ DB_get(buttons, id) = {}
               /\ last.res.tag = "undefined"
               /\ DOMAIN buttons = DOMAIN pre \ {id}
               /\ \A k \in DOMAIN buttons : buttons[k] = pre[k]
               /\ id \notin DOMAIN pre => buttons = pre

\* deleteButton ran alone on one of two stored buttons
C9_Witness ==
    /\ Solo("deleteButton")
    /\ last.id \in DOMAIN batch.buttons
    /\ Cardinality(DOMAIN batch.buttons) = 2
    /\ Cardinality(DOMAIN buttons) = 1

\* the migration of this session has run to its end and no call was made since
MigratedAlone ==
    /\ batch.n = 1
    /\ batch.calls[1].op = "initApp"
    /\ db = "open"
    /\ tasks[0].pc \in {"getAll", "stats", "idle"}

\* C10: when migrateIfNeeded has run on a legacy list, every record of the list is stored
\* under its own id, equal to the legacy record, the buttons stored before are as before
\* unless the list has their id, and a non-empty list has been removed from the legacy
\* location; when it has run with the legacy location absent (as on every later run) the
\* collection is as before.
C10_Migration ==
    MigratedAlone
        => LET items == IF batch.legacy.kind = "array" THEN batch.legacy.items ELSE <<>>
               ids == {items[i].id : i \in 1..Len(items)}
               pre == batch.buttons
           IN  /\ \A i \in 1..Len(items) : DB_get(buttons, items[i].id) = {items[i]}
               /\ DOMAIN buttons = DOMAIN pre \cup ids
               /\ \A k \in DOMAIN pre \ ids : buttons[k] = pre[k]
               /\ items # <<>> => legacy = NoLegacy
               /\ items = <<>> => legacy = batch.legacy /\ buttons = pre

\* a later session ran migrateIfNeeded again after a two-record migration: the legacy
\* location is absent and the collection is as the session found it
C10_Witness ==
    /\ MigratedAlone
    /\ batch.legacy = NoLegacy
    /\ DB_get(buttons, "1") = {Legacy1}
    /\ DB_get(buttons, "0") = {Legacy2}
    /\ buttons = batch.buttons

\* the legacy list this session found, <<>> when the item is absent or no list
FoundItems == IF batch.legacy.kind = "array" THEN batch.legacy.items ELSE <<>>

\* this session found a legacy list of which an earlier run, cut short before it removed
\* the list, had copied the first k records
CopiedPrefix(k) ==
    /\ k \in 1..Len(FoundItems)
    /\ \A i \in 1..k : DB_get(batch.buttons, FoundItems[i].id) = {FoundItems[i]}
    /\ \A i \in (k + 1)..Len(FoundItems) : FoundItems[i].id \notin DOMAIN batch.buttons

\* C11: when a migration run was cut short after copying a prefix of the legacy list and
\* the next session's run has finished, the collection holds each legacy record once,
\* under its id and equal to the legacy record, beside exactly the buttons that are not
\* of the list, unchanged; the legacy list is removed.
C11_InterruptedMigration ==
    (MigratedAlone /\ \E k \in 1..Len(FoundItems) : CopiedPrefix(k))
        => LET ids == {FoundItems[i].id : i \in 1..Len(FoundItems)}
               pre == batch.buttons
           IN  /\ \A i \in 1..Len(FoundItems) :
                    DB_get(buttons, FoundItems[i].id) = {FoundItems[i]}
               /\ DOMAIN buttons = DOMAIN pre \cup ids
               /\ Cardinality(DOMAIN buttons) = Cardinality(DOMAIN pre \ ids) + Len(FoundItems)
               /\ \A k \in DOMAIN pre \ ids : buttons[k] = pre[k]
               /\ legacy = NoLegacy

\* a run was cut short after the first of two legacy records; the next run has finished
C11_Witness ==
    /\ MigratedAlone
    /\ FoundItems = <<Legacy1, Legacy2>>
    /\ CopiedPrefix(1)
    /\ DOMAIN buttons = {"0", "1"}

\* the legacy item this session found is absent, an empty list, or does not parse
NothingToMigrate ==
    \/ batch.legacy.kind \in {"absent", "invalid"}
    \/ batch.legacy.kind = "array" /\ batch.legacy.items = <<>>

\* C12: in a session that found the legacy item absent, empty or unparsable, once DB.init
\* has resolved and until the first call of the UI: initApp is loading or has loaded the
\* home view, it has not ended in its catch, and both stores are as the session found
\* them.
C12_NothingToMigrate ==
    (db = "open" /\ batch.n = 1 /\ batch.calls[1].op = "initApp" /\ NothingToMigrate)
        => /\ tasks[0].pc \in {"getAll", "stats", "idle"}
           /\ tasks[0].pc = "idle" => last.op = "initApp" /\ last.res.tag = "home"
           /\ buttons = batch.buttons
           /\ stats = batch.stats

\* a session that found unparsable legacy data, on stores that are not empty, has loaded
\* the home view
C12_Witness ==
    /\ batch.n = 1
    /\ batch.legacy.kind = "invalid"
    /\ batch.buttons # EmptyStore
    /\ last.op = "initApp" /\ last.res.tag = "home"
    /\ tasks[0].pc = "idle"

\* C13: the copy loop of the migration runs only on an open handle; the home view is
\* loaded only on an open handle and after the migration has ended (nothing left to copy,
\* the legacy list removed or not a list to copy); while the handle is not open no
\* request is pending on either store and no step changes the stores or the legacy item.
C13_StartupOrder ==
    /\ [](tasks[0].pc \in {"put", "remove"} => db = "open")
    /\ [](tasks[0].pc \in {"getAll", "stats"}
            => /\ db = "open"
               /\ tasks[0].list = <<>> /\ tasks[0].loc = {}
               /\ MigrationList(legacy) = <<>>)
    /\ [](db # "open" => btnQ = <<>> /\ statsQ = <<>>)
    /\ [][db # "open" => buttons' = buttons /\ stats' = stats /\ legacy' = legacy]_vars

\* resetStats was called before DB.init resolved, on counters that are not empty, and
\* returned
C13_Witness ==
    /\ db = "null"
    /\ tasks[0].pc = "open"
    /\ last.op = "resetStats" /\ last.from = "nodb"
    /\ stats # EmptyStore

\* C14: when DB.init failed, initApp has ended in its catch with the notice to the user,
\* having started neither the migration nor the home view; no request is pending, and no
\* step of the session changes the stores or the legacy item.
C14_InitFailure ==
    /\ [](db = "failed"
            => /\ ~Running(0)
               /\ last.op = "initApp" => last.res.tag = "alert"
               /\ btnQ = <<>> /\ statsQ = <<>>)
    /\ [][(db = "failed" \/ db' = "failed")
            => buttons' = buttons /\ stats' = stats /\ legacy' = legacy]_vars

\* DB.init failed in a session with a legacy list to copy, and a resetStats call made
\* afterwards has returned
C14_Witness ==
    /\ db = "failed"
    /\ legacy.kind = "array" /\ legacy.items # <<>>
    /\ last.op = "resetStats" /\ last.from = "nodb"

\* C15 (the claim as stated): a call whose put or delete request failed returned null,
\* the failure result, and when it ran alone the stores are as before the call.
C15_FailureReported ==
    last.from \in {"put_error", "delete_error"}
        => /\ last.res.tag = "null"
           /\ (batch.n = 1 /\ AtRest) => buttons = batch.buttons /\ stats = batch.stats

\* C16 (the claim as stated): no call ends with a rejection of DB.getAll, DB.get, DB.put
\* or DB.delete.
C16_NoRejection == last.res.tag # "rejected"

\* C17 (the claim as stated): every getStats call returns a pair with a patience and a
\* desire value, each the value stored when the call returns, or 0 without a record; also
\* when the call is made on a handle that is not open.
C17_StatsPair ==
    [][(last'.op = "getStats" /\ last' # last)
        => \A r \in last'.res.rec :
            /\ DOMAIN r = StatKeys
            /\ \A key \in StatKeys :
                    r[key] = IF key \in DOMAIN stats THEN stats[key] ELSE 0]_vars

C19_CountersFirst ==
    [][\A t \in Slots :
        (tasks[t].op = "resetStats" /\ tasks[t].pc = "put" /\ buttons' # buttons
            /\ tasks'[t] # tasks[t])
        => ~\E i \in 1..Len(statsQ) : statsQ[i].kind = "reset" /\ statsQ[i].slot = t]_vars

\* C20 (the claim as stated): when deleteButton(id) was called while one updateButton(id),
\* incrementButtonStat(id) or resetStats call was in flight, and both calls have returned,
\* no button is stored under id.
C20_DeletedStaysDeleted ==
    ( /\ AtRest
      /\ batch.n = 2
      /\ batch.calls[2].op = "deleteButton"
      /\ batch.calls[2].conc
      /\ \/ batch.calls[1].op = "resetStats"
         \/ /\ batch.calls[1].op \in {"updateButton", "incrementButtonStat"}
            /\ batch.calls[1].id = batch.calls[2].id )
    => batch.calls[2].id \notin DOMAIN buttons

\* C21 (the claim as stated): whenever the migration of this session has removed the
\* legacy list it found, and no call was made since, every record of that list is stored
\* under its id; also when a put of the copy loop failed.
C21_NoRecordLost ==
    (batch.n = 1 /\ batch.calls[1].op = "initApp" /\ FoundItems # <<>> /\ legacy = NoLegacy)
        => \A i \in 1..Len(FoundItems) :
                DB_get(buttons, FoundItems[i].id) = {FoundItems[i]}

\* the sum of a count over the buttons stored under the given ids
RECURSIVE SumCount(_, _, _)
SumCount(store, ids, field) ==
    IF ids = {}
    THEN 0
    ELSE LET id == CHOOSE x \in ids : TRUE
         IN  OrZero(store[id], field) + SumCount(store, ids \ {id}, field)

\* C22 (the claim as stated): on a store that started empty, however the taps, the reset,
\* the deletes, the adds and the edits interleave, each global counter is at least the sum
\* of the matching count over the stored buttons.
C22_GlobalAtLeastSum ==
    \A type \in StatKeys :
        StatRead(stats, type) >= SumCount(buttons, DOMAIN buttons, CountField(type))

\* C22 where nothing is in flight: the inequality of C22 in the states in which every
\* handler has returned and every transaction has committed.
C22_AtRest == (AtRest /\ statsQ = <<>>) => C22_GlobalAtLeastSum

\* a getStats transaction of the caller in slot t is pending
GetStatsPending(t) ==
    \E i \in 1..Len(statsQ) : statsQ[i].kind = "get" /\ statsQ[i].slot = t

\* C23 (the claim as stated, in the form a finite run refutes): a caller that awaits
\* getStats() (a getStats call of the UI, or renderHeaderStats in initApp) is waiting
\* for a transaction that is still pending; once the two reads are over, with success
\* or failure, the promise has resolved and no caller is left at its await.
C23_GetStatsResolves ==
    /\ \A t \in Slots : (tasks[t].op = "getStats" /\ Running(t)) => GetStatsPending(t)
    /\ (tasks[0].op = "initApp" /\ tasks[0].pc = "stats") => GetStatsPending(0)

\* C24 (the claim as stated): when a resetStats call and an updateButton(id, { name,
\* message, imageUrl, colorIndex }) call on a stored button overlapped, the updateButton
\* returned while the reset was in flight, and both have returned, the button holds the
\* name, message, imageUrl and colorIndex that the updateButton wrote.
C24_ResetKeepsEdit ==
    \A i, j \in 1..2 :
        ( /\ AtRest
          /\ batch.n = 2
          /\ batch.calls[i].op = "resetStats"
          /\ batch.calls[j].op = "updateButton"
          /\ last.op = "resetStats"
          /\ batch.calls[j].id \in DOMAIN batch.buttons
          /\ batch.calls[j].arg \subseteq FormEdits )
        => \A input \in batch.calls[j].arg :
                \E r \in DB_get(buttons, batch.calls[j].id) :
                    \A f \in DOMAIN input : Has(r, f, input[f])

====
